---- MODULE Spec2Model ----
(***************************************************************************)
(* Model of chapter_tool.py: one run of main() over one audio file and one *)
(* Audacity label file.  The external tools (ffmpeg, ffprobe) are the      *)
(* environment: every call to them is a nondeterministic choice of its     *)
(* outcome.                                                                *)
(*                                                                         *)
(* Times.  The label file and ffprobe print seconds with six decimals.  A  *)
(* value of seconds is modelled by its integer number of microseconds, so  *)
(* that `int(x * 1000)` (truncation) and round(x * 1000) differ on the     *)
(* sub-millisecond digits, as they do in the program.                      *)
(***************************************************************************)
EXTENDS Integers, Sequences, FiniteSets

\* ---------------------------------------------------------------- bounds

\* Longest label file explored, in lines.
MaxLines == 3

\* Start values of a label line, in microseconds: 0.0 s, two values inside
\* the same millisecond (1.000200 s, 1.000600 s; the second one rounds up),
\* and 10.5 s.
StartVals == {0, 1000200, 1000600, 10500000}

Titles == {"Intro", "Two"}

\* Durations ffprobe reports, in microseconds: an empty track and 20.0006 s.
DurVals == {0, 20000600}

\* Values of --target-lufs explored: the default and one other.
TargetVals == {-16, -14}

\* ------------------------------------------------------ program constants

\* `I=-16` in analyze_loudness's filter string.
MeasureTargetI == -16
\* `TP=-1.5`, in tenths of a dB.
TargetTPTenths == -15
\* `LRA=11`.
TargetLRA == 11

\* ------------------------------------------------------------ label file

\* A line of the label file after line.strip() and split('\t'):
\*   n     the number of tab-separated fields (0: the stripped line is empty),
\*   num   whether float() accepts field 0,
\*   us    field 0 in microseconds (when num),
\*   title field 2 (when n >= 3).
BlankLine == [n |-> 0, num |-> FALSE, us |-> 0, title |-> ""]
TextLine == [n |-> 1, num |-> FALSE, us |-> 0, title |-> ""]
ShortLine == [n |-> 2, num |-> TRUE, us |-> 0, title |-> ""]
BadStartLine == [n |-> 3, num |-> FALSE, us |-> 0, title |-> "Intro"]
LabelLine(s, t) == [n |-> 3, num |-> TRUE, us |-> s, title |-> t]

Lines ==
    {BlankLine, TextLine, ShortLine, BadStartLine}
        \cup {LabelLine(s, t) : s \in StartVals, t \in Titles}

LabelFiles == UNION {[1..k -> Lines] : k \in 0..MaxLines}

\* --------------------------------------------------------------- helpers

\* Python's int() of a float: truncation toward zero, here of microseconds
\* to milliseconds (`int(x * 1000)`).
IntMs(us) == IF us >= 0 THEN us \div 1000 ELSE -((-us) \div 1000)

\* round(x * 1000): the nearest millisecond.
RoundMs(us) == (us + 500) \div 1000

\* `if not line: continue` and `if len(parts) >= 3`: the lines that reach
\* the body of the loop.
HasThreeFields(line) == line.n >= 3

\* float(parts[0]) raises ValueError on this line.
FloatRaises(line) == HasThreeFields(line) /\ ~line.num

\* The event appended for a line: {'start_sec': ..., 'title': parts[2]}.
Event(line) == [start_sec |-> line.us, title |-> line.title]

RECURSIVE Appended(_)
\* The list `chapters` after the loop over the lines, in input order.
Appended(lines) ==
    IF lines = <<>> THEN <<>>
    ELSE LET rest == Appended(SubSeq(lines, 1, Len(lines) - 1))
             last == lines[Len(lines)]
         IN IF HasThreeFields(last) THEN Append(rest, Event(last)) ELSE rest

\* Mutant of Insert: an unstable sort that puts a new event before the
\* events with an equal key.
InsertBeforeEqual(e, s) ==
    LET k == Cardinality({i \in 1..Len(s) : s[i].start_sec < e.start_sec})
    IN SubSeq(s, 1, k) \o <<e>> \o SubSeq(s, k + 1, Len(s))

\* One step of the stable sort: e goes after every event whose key is not
\* greater.
Insert(e, s) ==
    LET k == Cardinality({i \in 1..Len(s) : s[i].start_sec <= e.start_sec})
    IN SubSeq(s, 1, k) \o <<e>> \o SubSeq(s, k + 1, Len(s))

RECURSIVE Sorted(_)
\* sorted(chapters, key=lambda x: x['start_sec']): stable, ascending.
Sorted(s) ==
    IF s = <<>> THEN <<>>
    ELSE Insert(s[Len(s)], Sorted(SubSeq(s, 1, Len(s) - 1)))

\* parse_audacity_labels raises (an uncaught ValueError) on these lines.
ParseRaises(lines) == \E i \in 1..Len(lines) : FloatRaises(lines[i])

\* parse_audacity_labels's return value when it does not raise.
parse_audacity_labels(lines) == Sorted(Appended(lines))

\* get_audio_duration_ms: int(duration_sec * 1000).
get_audio_duration_ms(durUs) == IntMs(durUs)

\* -------------------------------------------------------- loudness filter

\* What analyze_loudness's ffmpeg call and the parsing of its stderr can
\* end in:
\*   "measured"            the call succeeds and the last {...} of stderr is
\*                         a JSON object of numbers,
\*   "CalledProcessError"  ffmpeg exits non-zero (check=True),
\*   "NoJson"              stderr holds no '{' or no '}' (return None),
\*   "JSONDecodeError"     the text between the last '{' and the last '}' is
\*                         no JSON,
\*   "ValueError"          a value float() rejects, such as "abc",
\*   "TypeError"           a value float() cannot take, such as null,
\*   "FileNotFoundError"   ffmpeg cannot be started.
MeasureOutcomes ==
    {"measured", "CalledProcessError", "NoJson", "JSONDecodeError",
     "ValueError", "TypeError", "FileNotFoundError"}

\* `except (subprocess.CalledProcessError, json.JSONDecodeError, KeyError,
\* ValueError)`: the exceptions analyze_loudness turns into None.
CaughtByAnalyze(o) ==
    o \in {"CalledProcessError", "JSONDecodeError", "KeyError", "ValueError"}

\* analyze_loudness returns None.
ReturnsNone(o) == o = "NoJson" \/ CaughtByAnalyze(o)

\* The four values of a successful measurement, in tenths; the second one
\* is what `.get(key, 0)` gives for a JSON object without the keys.
Measurements ==
    {[input_i |-> -230, input_tp |-> -31, input_lra |-> 70, input_thresh |-> -335],
     [input_i |-> 0, input_tp |-> 0, input_lra |-> 0, input_thresh |-> 0]}

NoData == [input_i |-> 1, input_tp |-> 1, input_lra |-> 1, input_thresh |-> 1]

NoCmd == [mode |-> "unset", I |-> 0, TP |-> 0, LRA |-> 0, measured |-> NoData]

\* The filter of analyze_loudness's command.
MeasureCmd ==
    [mode |-> "measure", I |-> MeasureTargetI, TP |-> TargetTPTenths,
     LRA |-> TargetLRA, measured |-> NoData]

\* The filter of convert_to_mp3's command, from (normalize, target_lufs,
\* loudness_data); data = NoData stands for None.
ConvertCmd(norm, lufs, data) ==
    IF ~norm
    THEN [mode |-> "none", I |-> 0, TP |-> 0, LRA |-> 0, measured |-> NoData]
    ELSE IF data # NoData
    THEN [mode |-> "linear", I |-> lufs, TP |-> TargetTPTenths,
          LRA |-> TargetLRA, measured |-> data]
    ELSE [mode |-> "dynamic", I |-> lufs, TP |-> TargetTPTenths,
          LRA |-> TargetLRA, measured |-> NoData]

\* ---------------------------------------------------------- metadata file

\* One line of the FFMETADATA file: its key, and its value as a number or
\* as text.
MetaLine(k, n, t) == [key |-> k, num |-> n, str |-> t]

Header == MetaLine(";FFMETADATA1", 0, "")

\* Mutant of EndSec: every chapter ends at the end of the track.
EndSecAlwaysDuration(chs, i, durUs) == durUs

\* end_sec of chapter i (1-based): the next chapter's start, or the
\* duration ffprobe reports for the last one.
EndSec(chs, i, durUs) ==
    IF i < Len(chs) THEN chs[i + 1].start_sec ELSE durUs

\* The five lines written for chapter i.
Stanza(chs, i, durUs) ==
    << MetaLine("[CHAPTER]", 0, ""),
       MetaLine("TIMEBASE", 0, "1/1000"),
       MetaLine("START", IntMs(chs[i].start_sec), ""),
       MetaLine("END", IntMs(EndSec(chs, i, durUs)), ""),
       MetaLine("title", 0, chs[i].title) >>

RECURSIVE Stanzas(_, _, _)
\* The stanzas of chapters 1..k, in list order.
Stanzas(chs, k, durUs) ==
    IF k <= 0 THEN <<>>
    ELSE Stanzas(chs, k - 1, durUs) \o Stanza(chs, k, durUs)

\* The file after the loop ran over every chapter.
MetaText(chs, durUs) == <<Header>> \o Stanzas(chs, Len(chs), durUs)

\* The file when ffprobe fails in the last iteration: the header and the
\* stanzas of the chapters before the last (their end is the next start).
MetaTextBeforeLast(chs) == <<Header>> \o Stanzas(chs, Len(chs) - 1, 0)

\* Mutant of NoChapters: the check dropped.
NoChaptersNeverTrue(chs) == FALSE

\* `if not chapters:` in main.
NoChapters(chs) == chs = <<>>

\* ------------------------------------------------------------------ state

VARIABLES
    labelLines,     \* the label file's lines
    normalize,      \* not --no-normalize
    target_lufs,    \* --target-lufs
    pc,             \* where main() is
    outcome,        \* how the run ended ("" while it runs)
    chapters,       \* parse_audacity_labels's result
    measure,        \* the outcome of analyze_loudness's call ("" before it)
    loudness_data,  \* analyze_loudness's return value (NoData: None)
    measureCmd,     \* the filter Measure was invoked with (NoCmd: not invoked)
    convertCmd,     \* the filter the conversion was invoked with
    target,         \* the file <name>_chapters.mp3
    metaFile,       \* the text written to the metadata file
    metaExists,     \* the metadata file is on disk
    durationUs,     \* the duration ffprobe reported in embed_chapters_ffmpeg
    embedInvoked    \* the chapter-embedding ffmpeg call was made

vars ==
    << labelLines, normalize, target_lufs, pc, outcome, chapters, measure,
       loudness_data, measureCmd, convertCmd, target, metaFile, metaExists,
       durationUs, embedInvoked >>

\* durationUs before ffprobe answered.
NotProbed == 0 - 1

Init ==
    /\ labelLines \in LabelFiles
    /\ normalize \in BOOLEAN
    /\ target_lufs \in TargetVals
    /\ pc = "parse"
    /\ outcome = ""
    /\ chapters = <<>>
    /\ measure = ""
    /\ loudness_data = NoData
    /\ measureCmd = NoCmd
    /\ convertCmd = NoCmd
    /\ target = "absent"
    /\ metaFile = <<>>
    /\ metaExists = FALSE
    /\ durationUs = NotProbed
    /\ embedInvoked = FALSE

\* main, `chapters = parse_audacity_labels(args.label_file)`: the result,
\* or the ValueError of float() leaving main.
ParseLabels ==
    /\ pc = "parse"
    /\ IF ParseRaises(labelLines)
       THEN /\ pc' = "crashed"
            /\ outcome' = "ValueError"
            /\ UNCHANGED chapters
       ELSE /\ pc' = "check"
            /\ chapters' = parse_audacity_labels(labelLines)
            /\ UNCHANGED outcome
    /\ UNCHANGED << labelLines, normalize, target_lufs, measure, loudness_data,
                    measureCmd, convertCmd, target, metaFile, metaExists,
                    durationUs, embedInvoked >>

\* main, `if not chapters: ... sys.exit(1)`.
CheckChapters ==
    /\ pc = "check"
    /\ IF NoChapters(chapters)
       THEN pc' = "exit" /\ outcome' = "NoChaptersFound"
       ELSE pc' = "convert" /\ UNCHANGED outcome
    /\ UNCHANGED << labelLines, normalize, target_lufs, chapters, measure,
                    loudness_data, measureCmd, convertCmd, target, metaFile,
                    metaExists, durationUs, embedInvoked >>

\* convert_to_mp3, `loudness_data = analyze_loudness(input_file)` under
\* `if normalize:`.
AnalyzeLoudness ==
    /\ pc = "convert"
    /\ normalize
    /\ measure = ""
    /\ measureCmd' = MeasureCmd
    /\ \E o \in MeasureOutcomes :
         /\ measure' = o
         /\ IF o = "measured"
            THEN /\ loudness_data' \in Measurements
                 /\ UNCHANGED << pc, outcome >>
            ELSE IF ReturnsNone(o)
            THEN /\ loudness_data' = NoData
                 /\ UNCHANGED << pc, outcome >>
            ELSE /\ pc' = "crashed"
                 /\ outcome' = o
                 /\ UNCHANGED loudness_data
    /\ UNCHANGED << labelLines, normalize, target_lufs, chapters, convertCmd,
                    target, metaFile, metaExists, durationUs, embedInvoked >>

\* convert_to_mp3, the command and its one subprocess.run: the file is
\* created, or the run ends with sys.exit(1).  A failed conversion is taken
\* to leave no file behind.
ConvertToMp3 ==
    /\ pc = "convert"
    /\ normalize => measure # ""
    /\ convertCmd' = ConvertCmd(normalize, target_lufs, loudness_data)
    /\ \E ok \in BOOLEAN :
         IF ok
         THEN pc' = "embed" /\ target' = "converted" /\ UNCHANGED outcome
         ELSE pc' = "exit" /\ outcome' = "ConversionFailed" /\ UNCHANGED target
    /\ UNCHANGED << labelLines, normalize, target_lufs, chapters, measure,
                    loudness_data, measureCmd, metaFile, metaExists,
                    durationUs, embedInvoked >>

\* embed_chapters_ffmpeg, the `with` block: the metadata file is written;
\* ffprobe runs in the last iteration and its failure (CalledProcessError,
\* or a ValueError of float() on its output) leaves the function with the
\* file on disk.  An empty list runs no iteration: only the header is
\* written and ffprobe is not called.
WriteMetadata ==
    /\ pc = "embed"
    /\ metaExists' = TRUE
    /\ IF chapters = <<>>
       THEN /\ metaFile' = <<Header>>
            /\ pc' = "apply"
            /\ UNCHANGED << outcome, durationUs >>
       ELSE \/ \E d \in DurVals :
                 /\ durationUs' = d
                 /\ metaFile' = MetaText(chapters, d)
                 /\ pc' = "apply"
                 /\ UNCHANGED outcome
            \/ \E e \in {"ProbeCalledProcessError", "ProbeValueError"} :
                 /\ metaFile' = MetaTextBeforeLast(chapters)
                 /\ pc' = "crashed"
                 /\ outcome' = e
                 /\ UNCHANGED durationUs
    /\ UNCHANGED << labelLines, normalize, target_lufs, chapters, measure,
                    loudness_data, measureCmd, convertCmd, target, embedInvoked >>

\* embed_chapters_ffmpeg, the try/finally: ffmpeg writes the temporary
\* output, which replaces the mp3 file; the metadata file is unlinked either
\* way; a failure of ffmpeg leaves the function.
ApplyMetadata ==
    /\ pc = "apply"
    /\ embedInvoked' = TRUE
    /\ metaExists' = FALSE
    /\ \E ok \in BOOLEAN :
         IF ok
         THEN pc' = "verify" /\ target' = "chaptered" /\ UNCHANGED outcome
         ELSE pc' = "crashed" /\ outcome' = "EmbedCalledProcessError" /\ UNCHANGED target
    /\ UNCHANGED << labelLines, normalize, target_lufs, chapters, measure,
                    loudness_data, measureCmd, convertCmd, metaFile, durationUs >>

\* embed_chapters_ffmpeg, the verification: whatever ffprobe answers, only
\* a warning is printed, and main prints its last lines.
VerifyChapters ==
    /\ pc = "verify"
    /\ pc' = "done"
    /\ outcome' = "ok"
    /\ UNCHANGED << labelLines, normalize, target_lufs, chapters, measure,
                    loudness_data, measureCmd, convertCmd, target, metaFile,
                    metaExists, durationUs, embedInvoked >>

Next ==
    \/ ParseLabels
    \/ CheckChapters
    \/ AnalyzeLoudness
    \/ ConvertToMp3
    \/ WriteMetadata
    \/ ApplyMetadata
    \/ VerifyChapters

Spec == Init /\ [][Next]_vars

\* ----------------------------------------------------------------- claims

\* The stanzas of the metadata file m: their number, and the START, END and
\* title values of stanza i.
NStanzas(m) == IF m = <<>> THEN 0 ELSE (Len(m) - 1) \div 5
StartOf(m, i) == m[5 * (i - 1) + 4].num
EndOf(m, i) == m[5 * (i - 1) + 5].num
TitleOf(m, i) == m[5 * (i - 1) + 6].str

\* The whole file was written: ffprobe answered in the last iteration.
Written == durationUs # NotProbed

\* The run is over.
Ended == pc \in {"exit", "crashed", "done"}

\* C1: the intervals written to the metadata file form a gapless chain: the
\* END of every stanza but the last is the START of the next one, and the
\* END of the last stanza of a completely written file is the track's
\* duration in milliseconds.
C1_GaplessChain ==
    LET n == NStanzas(metaFile)
    IN /\ \A i \in 1..(n - 1) : EndOf(metaFile, i) = StartOf(metaFile, i + 1)
       /\ Written =>
            /\ n = Len(chapters)
            /\ n >= 1
            /\ EndOf(metaFile, n) = get_audio_duration_ms(durationUs)

\* C1's case: markers at 0.0 s and 10.5 s in a track of 20000 ms give
\* (0, 10500) and (10500, 20000).
C1_Witness ==
    /\ Written
    /\ durationUs = 20000600
    /\ NStanzas(metaFile) = 2
    /\ StartOf(metaFile, 1) = 0 /\ EndOf(metaFile, 1) = 10500
    /\ StartOf(metaFile, 2) = 10500 /\ EndOf(metaFile, 2) = 20000

\* C2: no stanza with END <= START is ever written to the metadata file (a
\* degenerate interval is rejected instead).
C2_NoDegenerateInterval ==
    \A i \in 1..NStanzas(metaFile) : StartOf(metaFile, i) < EndOf(metaFile, i)

\* C3: the correction mode of the conversion is decided by (normalize, the
\* outcome of Measure): linear with the measured values exactly when Measure
\* succeeded, dynamic without them exactly when it failed, no filter and no
\* Measure without normalization; and once Measure has failed, the run has
\* gone on to invoke the conversion (a failure of Measure never ends the
\* run).
C3_MeasureDecidesMode ==
    /\ convertCmd # NoCmd =>
         IF ~normalize
         THEN convertCmd.mode = "none" /\ measureCmd = NoCmd
         ELSE IF measure = "measured"
         THEN convertCmd.mode = "linear" /\ convertCmd.measured = loudness_data
         ELSE convertCmd.mode = "dynamic" /\ convertCmd.measured = NoData
    /\ (normalize /\ measure \notin {"", "measured"} /\ pc # "convert") =>
         convertCmd.mode = "dynamic"

\* C4: when the run is over, the target file exists only if the conversion
\* and the embedding both succeeded.
C4_NoPartialOutput ==
    (Ended /\ target # "absent") => (pc = "done" /\ target = "chaptered")

\* C5: when the label file yields no chapter event, the run ends in
\* NoChaptersFound and neither Measure, the conversion nor the embedding was
\* invoked; the steps after the check never see an empty chapter list.
C5_NoChaptersFound ==
    /\ (pc \notin {"parse", "check"} /\ ~ParseRaises(labelLines) /\ chapters = <<>>) =>
         /\ pc = "exit"
         /\ outcome = "NoChaptersFound"
         /\ measureCmd = NoCmd
         /\ convertCmd = NoCmd
         /\ metaFile = <<>>
         /\ ~embedInvoked
         /\ target = "absent"
    /\ outcome = "NoChaptersFound" => chapters = <<>>

\* C5's case: a label file of a blank line and a line of two fields.
C5_Witness ==
    /\ labelLines = <<BlankLine, ShortLine>>
    /\ pc = "exit"
    /\ outcome = "NoChaptersFound"

\* The well-formed lines of a label file: three fields or more and a number
\* as the start.
WellFormed(line) == line.n >= 3 /\ line.num

\* C6: parsing never aborts on a line: once parse_audacity_labels is over it
\* has raised nothing and has returned one event for each well-formed line,
\* the blank and the malformed ones skipped.
C6_ParseLenient ==
    pc # "parse" =>
        /\ outcome # "ValueError"
        /\ Len(chapters) =
             Cardinality({i \in DOMAIN labelLines : WellFormed(labelLines[i])})

\* C7: the linear (measured) Apply uses the target triple (I, TP, LRA) that
\* Measure was invoked with.
C7_SameTargetTriple ==
    convertCmd.mode = "linear" =>
        /\ convertCmd.I = measureCmd.I
        /\ convertCmd.TP = measureCmd.TP
        /\ convertCmd.LRA = measureCmd.LRA

\* The (start, title) pairs of the well-formed label lines, in input order.
InputEvents ==
    LET sel == SelectSeq(labelLines, WellFormed)
    IN [i \in 1..Len(sel) |-> [us |-> sel[i].us, title |-> sel[i].title]]

\* The (start, title) pairs of the stanzas, in file order: the title written
\* in stanza i, and the start of the chapter it was written for.
StanzaEvents ==
    [i \in 1..NStanzas(metaFile) |->
        [us |-> chapters[i].start_sec, title |-> TitleOf(metaFile, i)]]

\* The events of a list that start at s, in the list's order.
StartingAt(evs, s) == SelectSeq(evs, LAMBDA e : e.us = s)

C10_StartRounded ==
    \A i \in 1..NStanzas(metaFile) :
        StartOf(metaFile, i) = RoundMs(chapters[i].start_sec)

====
